---- MODULE Spec2Model ----
(***************************************************************************)
(* DeepSpeedCPUAdam (deepspeed/ops/adam/cpu_adam.py): the lazy loader of   *)
(* the native Adam kernel, which coordinates the one-time build between    *)
(* processes through the marker files 'started' and 'done', and the        *)
(* optimizer driver (constructor and step) that uses the loaded kernel.    *)
(*                                                                         *)
(* SpecBuild : NumProcs processes racing through load_op() on one shared   *)
(*             build-cache directory.                                      *)
(* FairBuild : SpecBuild with every process scheduled fairly.              *)
(* SpecOpt   : one process constructing optimizers and calling step().     *)
(* SpecStep  : step() calls with any arguments on one built optimizer.     *)
(* SpecShape : step() calls on parameters whose shape the caller changes.  *)
(* SpecCrash : load_op() calls after a builder died between the markers.   *)
(***************************************************************************)
EXTENDS Naturals, Integers, Sequences, FiniteSets, TLC

\* ---------------------------------------------------------------- bounds
NumProcs == 2
MaxCalls == 2

Procs == 1..NumProcs
Main == 1

None == "None"
Handle == "ds_cpu_adam"

VARIABLES
    started,       \* the file <ext_path>/started exists
    done,          \* the file <ext_path>/done exists
    initMarkers,   \* the markers the build-cache directory held at the start
    pc,            \* pc[p]: where process p stands
    site,          \* site[p]: the caller of the load_op() call in progress
    ds_opt_adam,   \* ds_opt_adam[p]: the class attribute DeepSpeedCPUAdam.ds_opt_adam
    calls,         \* calls[p]: direct load_op() calls begun by p
    outcome,       \* outcome[p]: whether a load_op() call of p has returned, has raised
    compiles,      \* compiles[p]: invocations of load(...) by p
    cur,           \* cur[p]: what the load_op() call in progress has done so far
    optimizer_id,  \* the class attribute DeepSpeedCPUAdam.optimizer_id of process Main
    assigned,      \* the opt_id values handed out so far, in order
    building,      \* the instance whose __init__ is running (at most one)
    insts,         \* the constructed instances: [opt_id, state]
    hist,          \* per instance and parameter: what the step() calls did to it
    kernel,        \* the native module's side: the create_adam calls it has seen
    call,          \* the step() call in progress
    nsteps         \* step() calls begun

buildVars == <<started, done, initMarkers, pc, site, ds_opt_adam, calls, outcome,
               compiles, cur>>

optVars == <<optimizer_id, assigned, building, insts, hist, kernel, call, nsteps>>

vars == <<buildVars, optVars>>

\* What one load_op() call has done: whether it entered with 'started' present
\* and 'done' absent, the markers it wrote, the load(...) calls it made, whether
\* it slept in the wait loop, and the handle it returned.
NoCur == [blocked |-> FALSE, touches |-> 0, compiles |-> 0, slept |-> FALSE,
          returned |-> None]

\* ------------------------------------------------------ load_op, line by line

\* Mutant of CacheEmpty: the cache is never consulted.
CacheIgnored(c) == TRUE

\* line 44: if DeepSpeedCPUAdam.ds_opt_adam is None
CacheEmpty(c) == c = None

\* Mutant of BuildStarted: the 'started' marker is never seen.
BuildNeverStarted(s) == FALSE

\* line 38: if os.path.isfile(os.path.join(ext_path, 'started'))
BuildStarted(s) == s

\* Mutant of WaitOver: the loop test is inverted.
WaitInverted(d) == ~d

\* line 39: while not os.path.isfile(os.path.join(ext_path, 'done'))
WaitOver(d) == d

\* A direct call of the static method load_op().
CallLoadOp(p) ==
    /\ pc[p] = "idle"
    /\ calls[p] < MaxCalls
    /\ calls' = [calls EXCEPT ![p] = @ + 1]
    /\ pc' = [pc EXCEPT ![p] = "load_op"]
    /\ site' = [site EXCEPT ![p] = "direct"]
    /\ UNCHANGED <<started, done, initMarkers, ds_opt_adam, outcome, compiles, cur>>
    /\ UNCHANGED optVars

\* lines 44-48: the cache test; on a miss the extension directory is made.
LoadOpEnter(p) ==
    /\ pc[p] = "load_op"
    /\ IF CacheEmpty(ds_opt_adam[p])
       THEN /\ pc' = [pc EXCEPT ![p] = "wait_started"]
            /\ cur' = [cur EXCEPT ![p] = [NoCur EXCEPT !.blocked = started /\ ~done]]
       ELSE /\ pc' = [pc EXCEPT ![p] = "return"]
            /\ cur' = [cur EXCEPT ![p] = NoCur]
    /\ UNCHANGED <<started, done, initMarkers, site, ds_opt_adam, calls, outcome, compiles>>
    /\ UNCHANGED optVars

\* line 38: wait_if_build_started tests the 'started' marker once.
WaitCheckStarted(p) ==
    /\ pc[p] = "wait_started"
    /\ pc' = [pc EXCEPT ![p] = IF BuildStarted(started) THEN "wait_done" ELSE "touch_started"]
    /\ UNCHANGED <<started, done, initMarkers, site, ds_opt_adam, calls, outcome, compiles, cur>>
    /\ UNCHANGED optVars

\* line 39: the loop test on the 'done' marker.
WaitCheckDone(p) ==
    /\ pc[p] = "wait_done"
    /\ pc' = [pc EXCEPT ![p] = IF WaitOver(done) THEN "touch_started" ELSE "sleep"]
    /\ cur' = [cur EXCEPT ![p].slept = @ \/ ~WaitOver(done)]
    /\ UNCHANGED <<started, done, initMarkers, site, ds_opt_adam, calls, outcome, compiles>>
    /\ UNCHANGED optVars

\* line 40: time.sleep(1000), then back to the loop test.
WaitSleep(p) ==
    /\ pc[p] = "sleep"
    /\ pc' = [pc EXCEPT ![p] = "wait_done"]
    /\ UNCHANGED <<started, done, initMarkers, site, ds_opt_adam, calls, outcome, compiles, cur>>
    /\ UNCHANGED optVars

\* line 52: Path(.../started).touch()
TouchStarted(p) ==
    /\ pc[p] = "touch_started"
    /\ started' = TRUE
    /\ pc' = [pc EXCEPT ![p] = "load"]
    /\ cur' = [cur EXCEPT ![p].touches = @ + 1]
    /\ UNCHANGED <<done, initMarkers, site, ds_opt_adam, calls, outcome, compiles>>
    /\ UNCHANGED optVars

\* line 58: load(name='ds_cpu_adam', sources=..., extra_cflags=...) is called:
\* the invocation of the external compiler.
LoadInvoke(p) ==
    /\ pc[p] = "load"
    /\ compiles' = [compiles EXCEPT ![p] = @ + 1]
    /\ cur' = [cur EXCEPT ![p].compiles = @ + 1]
    /\ pc' = [pc EXCEPT ![p] = "compiling"]
    /\ UNCHANGED <<started, done, initMarkers, site, ds_opt_adam, calls, outcome>>
    /\ UNCHANGED optVars

\* line 58: load(...) returns the module, which is stored in the class attribute.
LoadSucceed(p) ==
    /\ pc[p] = "compiling"
    /\ ds_opt_adam' = [ds_opt_adam EXCEPT ![p] = Handle]
    /\ pc' = [pc EXCEPT ![p] = "touch_done"]
    /\ UNCHANGED <<started, done, initMarkers, site, calls, outcome, compiles, cur>>
    /\ UNCHANGED optVars

\* Mutant of LoadFail: the failed build removes the 'started' marker.
LoadFailCleansUp(p) ==
    /\ pc[p] = "compiling"
    /\ started' = FALSE
    /\ pc' = [pc EXCEPT ![p] = "raise"]
    /\ UNCHANGED <<done, initMarkers, site, ds_opt_adam, calls, outcome, compiles, cur>>
    /\ UNCHANGED optVars

\* Mutant of LoadFail: the failed build writes the 'done' marker all the same.
LoadFailMarksDone(p) ==
    /\ pc[p] = "compiling"
    /\ done' = TRUE
    /\ pc' = [pc EXCEPT ![p] = "raise"]
    /\ UNCHANGED <<started, initMarkers, site, ds_opt_adam, calls, outcome, compiles, cur>>
    /\ UNCHANGED optVars

\* line 58: load(...) raises; nothing in load_op catches it.
LoadFail(p) ==
    /\ pc[p] = "compiling"
    /\ pc' = [pc EXCEPT ![p] = "raise"]
    /\ UNCHANGED <<started, done, initMarkers, site, ds_opt_adam, calls, outcome, compiles, cur>>
    /\ UNCHANGED optVars

\* line 89: Path(.../done).touch()
TouchDone(p) ==
    /\ pc[p] = "touch_done"
    /\ done' = TRUE
    /\ pc' = [pc EXCEPT ![p] = "return"]
    /\ cur' = [cur EXCEPT ![p].touches = @ + 1]
    /\ UNCHANGED <<started, initMarkers, site, ds_opt_adam, calls, outcome, compiles>>
    /\ UNCHANGED optVars


\* ------------------------------------------------- the optimizer's data

\* self.param_groups of every instance: the number of parameters of each group,
\* in declared order. A parameter is named by its position <<group_id, param_id>>.
ParamGroups == <<2, 1>>

NumGroups == Len(ParamGroups)

GroupLen(g) == ParamGroups[g + 1]

Positions == UNION {{<<g, i>> : i \in 0..(GroupLen(g) - 1)} : g \in 0..(NumGroups - 1)}

NoPos == <<-1, -1>>

\* The order of the two enumerate() loops of step (lines 105-106).
Before(a, b) == a[1] < b[1] \/ (a[1] = b[1] /\ a[2] < b[2])

\* Mutant of NextPos: the loops are nested the other way round, parameter
\* index outside and group inside.
NextPosParamMajor(g, i) ==
    IF g + 1 < NumGroups /\ i < GroupLen(g + 1) THEN <<g + 1, i>>
    ELSE IF i + 1 < GroupLen(0) THEN <<0, i + 1>>
    ELSE <<NumGroups, 0>>

\* lines 105-106: the position the two enumerate() loops visit after <<g, i>>.
NextPos(g, i) == IF i + 1 < GroupLen(g) THEN <<g, i + 1>> ELSE <<g + 1, 0>>

\* self.state[p] of a parameter never tracked: the empty dict.
NoState == [k \in {} |-> 0]

\* The shape and precision a tensor can have: the ones the parameters are
\* declared with, and another one the caller may give p.data later.
DeclaredLike == "float32[4]"

TensorLikes == {DeclaredLike, "float32[8]"}

DeclaredLikes == [q \in Positions |-> DeclaredLike]

\* Mutant of ZerosLike: the buffer is allocated without being zero-filled.
EmptyLike(like, gen) == [gen |-> gen, like |-> like, zero |-> FALSE]

\* torch.zeros_like(p.data, device='cpu'): a fresh all-zero buffer with the shape
\* and precision of p.data; gen tells the allocations of one parameter apart,
\* zero says the kernel has not written it.
ZerosLike(like, gen) == [gen |-> gen, like |-> like, zero |-> TRUE]

\* Mutant of HasGrad: the test for a missing gradient is dropped.
GradIgnored(grads, pos) == TRUE

\* line 108: if p.grad is None: continue
HasGrad(grads, pos) == pos \in grads

\* Mutant of NeedsInit: the state is initialised at every visit.
AlwaysInit(st) == TRUE

\* line 114: if len(state) == 0
NeedsInit(st) == DOMAIN st = {}

\* lines 116-120: state['step'] = 0 and the two zero buffers.
InitState(like, gen) ==
    [step |-> 0, exp_avg |-> ZerosLike(like, gen), exp_avg_sq |-> ZerosLike(like, gen)]

\* Mutant of IncStep: the increment is lost.
IncStepLost(st) == st

\* line 123: state['step'] += 1
IncStep(st) == [st EXCEPT !.step = @ + 1]

\* lines 112-123 for one gradient-bearing parameter.
Track(st, like, gen) == IncStep(IF NeedsInit(st) THEN InitState(like, gen) ELSE st)

\* line 126: if fp16_param_groups is not None
UseCopy(fp16) == fp16.given

\* line 127: fp16_param_groups[group_id][param_id] raises IndexError unless both
\* indices are in range.
ShadowExists(fp16, g, i) == g < Len(fp16.sizes) /\ i < fp16.sizes[g + 1]

\* Mutant of ShadowAt: the target is taken from the first group.
ShadowAtFirstGroup(g, i) == <<0, i>>

\* line 127: p_fp16 = fp16_param_groups[group_id][param_id]
ShadowAt(g, i) == <<g, i>>

\* Mutant of NextOptId: the class counter is not moved on.
OptIdKept(n) == n

\* lines 28-29: the id taken, the class counter moved on.
NextOptId(n) == n + 1

\* adam_update / adam_update_copy write exp_avg and exp_avg_sq in place.
KernelWrite(st) == [st EXCEPT !.exp_avg.zero = FALSE, !.exp_avg_sq.zero = FALSE]

NoFp16 == [given |-> FALSE, sizes |-> <<>>]

\* The fp16_param_groups a caller may pass: one target per parameter, or a
\* structure whose first group lacks its last target.
ShadowLayouts == {ParamGroups, [ParamGroups EXCEPT ![1] = @ - 1]}

FullFp16 == [given |-> TRUE, sizes |-> ParamGroups]

Fp16Choices == {NoFp16} \cup {[given |-> TRUE, sizes |-> s] : s \in ShadowLayouts}

\* No step() call in progress. Of a call in progress: the instance, the
\* arguments, the gradients and the shapes of p.data of the parameters, the
\* state the instance had when the call began, the loop position, the value of
\* the local variable loss and what the call has done so far.
NoCall == [inst |-> 0, closure |-> FALSE, fp16 |-> NoFp16, grads |-> {},
           likes |-> DeclaredLikes, pre |-> [q \in Positions |-> NoState],
           g |-> 0, i |-> 0, loss |-> None, log |-> <<>>]

NewHist == [gradCalls |-> [q \in Positions |-> 0], missed |-> [q \in Positions |-> 0],
            allocs |-> [q \in Positions |-> 0]]

Event(ev, id, pos, shadow, ok) ==
    [ev |-> ev, id |-> id, pos |-> pos, shadow |-> shadow, ok |-> ok]

\* The identity of a buffer object: which allocation it is and its shape.
BufferId(b) == [gen |-> b.gen, like |-> b.like]

\* lines 128-139: a kernel call with the tensors it is handed: p.data, and the
\* exp_avg and exp_avg_sq read from the state at line 122.
KernelEvent(ev, id, pos, shadow, ok, like, st) ==
    Event(ev, id, pos, shadow, ok) @@
        [p |-> like, exp_avg |-> BufferId(st.exp_avg), exp_avg_sq |-> BufferId(st.exp_avg_sq)]

\* line 91: return DeepSpeedCPUAdam.ds_opt_adam: to a direct caller, to line 34
\* of __init__ or to line 126 of step.
LoadOpReturn(p) ==
    /\ pc[p] = "return"
    /\ cur' = [cur EXCEPT ![p].returned = ds_opt_adam[p]]
    /\ outcome' = [outcome EXCEPT ![p].returned = TRUE]
    /\ pc' = [pc EXCEPT ![p] = CASE site[p] = "init" -> "create"
                                 [] site[p] = "step" -> "kernel"
                                 [] OTHER -> "idle"]
    /\ site' = [site EXCEPT ![p] = "none"]
    /\ UNCHANGED <<started, done, initMarkers, ds_opt_adam, calls, compiles>>
    /\ UNCHANGED optVars

\* The exception of load(...) leaves load_op and its caller: neither __init__
\* nor step catches it.
LoadOpRaise(p) ==
    /\ pc[p] = "raise"
    /\ outcome' = [outcome EXCEPT ![p].failed = TRUE]
    /\ pc' = [pc EXCEPT ![p] = IF site[p] = "step" THEN "step_raise" ELSE "idle"]
    /\ site' = [site EXCEPT ![p] = "none"]
    /\ building' = IF site[p] = "init" THEN <<>> ELSE building
    /\ UNCHANGED <<optimizer_id, assigned, insts, hist, kernel, call, nsteps>>
    /\ UNCHANGED <<started, done, initMarkers, ds_opt_adam, calls, compiles, cur>>

LoadOpStep(p) ==
    \/ LoadOpEnter(p)
    \/ WaitCheckStarted(p)
    \/ WaitCheckDone(p)
    \/ WaitSleep(p)
    \/ TouchStarted(p)
    \/ LoadInvoke(p)
    \/ LoadSucceed(p)
    \/ LoadFail(p)
    \/ TouchDone(p)
    \/ LoadOpReturn(p)
    \/ LoadOpRaise(p)

\* ------------------------------------------------------------ __init__

MaxCtor == 2

\* lines 21-33: the id is taken from the class counter, the counter moves on,
\* then load_op() is called.
CtorBegin ==
    /\ pc[Main] = "idle"
    /\ Len(assigned) < MaxCtor
    /\ building' = <<[opt_id |-> optimizer_id]>>
    /\ assigned' = Append(assigned, optimizer_id)
    /\ optimizer_id' = NextOptId(optimizer_id)
    /\ pc' = [pc EXCEPT ![Main] = "load_op"]
    /\ site' = [site EXCEPT ![Main] = "init"]
    /\ UNCHANGED <<insts, hist, kernel, call, nsteps>>
    /\ UNCHANGED <<started, done, initMarkers, ds_opt_adam, calls, outcome, compiles, cur>>

\* Mutant of Constructed: the exception of create_adam is swallowed.
ConstructedAnyway(ok) == TRUE

\* line 34: an exception of create_adam leaves __init__, so the caller holds an
\* instance only if create_adam returned.
Constructed(ok) == ok

\* line 34: ds_opt_adam.create_adam(self.opt_id, ...); when it returns the
\* constructor ends and the instance exists, when it raises there is none.
CtorCreate(ok) ==
    /\ pc[Main] = "create"
    /\ kernel' = Append(kernel, [id |-> building[1].opt_id, ok |-> ok])
    /\ building' = <<>>
    /\ IF Constructed(ok)
       THEN /\ insts' = Append(insts, [opt_id |-> building[1].opt_id,
                                       state |-> [q \in Positions |-> NoState]])
            /\ hist' = Append(hist, NewHist)
       ELSE UNCHANGED <<insts, hist>>
    /\ pc' = [pc EXCEPT ![Main] = "idle"]
    /\ UNCHANGED <<optimizer_id, assigned, call, nsteps>>
    /\ UNCHANGED <<started, done, initMarkers, site, ds_opt_adam, calls, outcome, compiles, cur>>

\* ---------------------------------------------------------------- step

MaxStepCalls == 2

Loss == "loss"

\* Mutant of RunClosure: the result of the closure is dropped.
ClosureResultDropped(closure) == None

\* lines 99-103: loss = None; if closure is not None: loss = closure()
RunClosure(closure) == IF closure THEN Loss ELSE None

\* lines 99-103: step(closure, fp16_param_groups) on instance k; grads are the
\* parameters whose p.grad is set when the loop runs (after the closure, if any),
\* likes the shape and precision of their p.data.
StepBegin(k, closure, fp16, grads, likes) ==
    /\ pc[Main] = "idle"
    /\ nsteps < MaxStepCalls
    /\ nsteps' = nsteps + 1
    /\ call' = [inst |-> k, closure |-> closure, fp16 |-> fp16, grads |-> grads,
                likes |-> likes, pre |-> insts[k].state,
                g |-> 0, i |-> 0,
                loss |-> RunClosure(closure),
                log |-> IF closure
                        THEN <<Event("closure", insts[k].opt_id, NoPos, NoPos, TRUE)>>
                        ELSE <<>>]
    /\ hist' = [hist EXCEPT ![k].gradCalls =
                   [q \in Positions |-> IF q \in grads THEN @[q] + 1 ELSE @[q]]]
    /\ pc' = [pc EXCEPT ![Main] = "loop"]
    /\ UNCHANGED <<optimizer_id, assigned, building, insts, kernel>>
    /\ UNCHANGED <<started, done, initMarkers, site, ds_opt_adam, calls, outcome, compiles, cur>>

\* step() with any arguments, on parameters of the declared shape.
StepCall ==
    \E k \in 1..Len(insts), closure \in BOOLEAN, fp16 \in Fp16Choices, grads \in SUBSET Positions :
        StepBegin(k, closure, fp16, grads, DeclaredLikes)

\* step() without closure and shadow targets, on parameters whose p.data the
\* caller may have replaced by a tensor of another shape.
StepCallReshaped ==
    \E k \in 1..Len(insts), grads \in SUBSET Positions, likes \in [Positions -> TensorLikes] :
        StepBegin(k, FALSE, NoFp16, grads, likes)

\* step() without a closure, with no shadow targets or with one per parameter,
\* when no parameter, one parameter or every parameter carries a gradient.
StepCallNoClosure ==
    \E k \in 1..Len(insts), fp16 \in {NoFp16, FullFp16},
       grads \in {S \in SUBSET Positions : Cardinality(S) <= 1 \/ S = Positions} :
        StepBegin(k, FALSE, fp16, grads, DeclaredLikes)

\* lines 105-106: both loops are exhausted.
StepLoopEnd ==
    /\ pc[Main] = "loop"
    /\ call.g >= NumGroups
    /\ pc' = [pc EXCEPT ![Main] = "step_return"]
    /\ UNCHANGED optVars
    /\ UNCHANGED <<started, done, initMarkers, site, ds_opt_adam, calls, outcome, compiles, cur>>

\* lines 108-109: a parameter without gradient is passed over.
StepSkip ==
    /\ pc[Main] = "loop"
    /\ call.g < NumGroups
    /\ ~HasGrad(call.grads, <<call.g, call.i>>)
    /\ call' = [call EXCEPT !.g = NextPos(call.g, call.i)[1], !.i = NextPos(call.g, call.i)[2]]
    /\ UNCHANGED <<optimizer_id, assigned, building, insts, hist, kernel, nsteps>>
    /\ UNCHANGED buildVars

\* lines 111-125: the state of a gradient-bearing parameter is created if it is
\* empty, its step counter is incremented, then load_op() is called.
StepTrack ==
    /\ pc[Main] = "loop"
    /\ call.g < NumGroups
    /\ HasGrad(call.grads, <<call.g, call.i>>)
    /\ LET k == call.inst
           pos == <<call.g, call.i>>
           st == insts[k].state[pos]
           id == insts[k].opt_id
           fresh == NeedsInit(st)
       IN /\ insts' = [insts EXCEPT ![k].state[pos] = Track(st, call.likes[pos], hist[k].allocs[pos])]
          /\ hist' = [hist EXCEPT ![k].allocs[pos] = IF fresh THEN @ + 1 ELSE @]
          /\ call' = [call EXCEPT !.log =
                         (IF fresh THEN Append(@, Event("alloc", id, pos, NoPos, TRUE)) ELSE @)
                            \o <<Event("inc", id, pos, NoPos, TRUE)>>]
    /\ pc' = [pc EXCEPT ![Main] = "load_op"]
    /\ site' = [site EXCEPT ![Main] = "step"]
    /\ UNCHANGED <<optimizer_id, assigned, building, kernel, nsteps>>
    /\ UNCHANGED <<started, done, initMarkers, ds_opt_adam, calls, outcome, compiles, cur>>

\* One kernel call of step for the current parameter: the call is logged; when
\* it returns the buffers are written and the loop goes on, when it raises the
\* exception leaves step.
KernelCall(ev, shadow, ok) ==
    /\ LET k == call.inst
           pos == <<call.g, call.i>>
           nxt == NextPos(call.g, call.i)
           logged == Append(call.log, KernelEvent(ev, insts[k].opt_id, pos, shadow, ok,
                                                  call.likes[pos], insts[k].state[pos]))
       IN IF ok
          THEN /\ insts' = [insts EXCEPT ![k].state[pos] = KernelWrite(@)]
               /\ call' = [call EXCEPT !.log = logged, !.g = nxt[1], !.i = nxt[2]]
               /\ pc' = [pc EXCEPT ![Main] = "loop"]
          ELSE /\ call' = [call EXCEPT !.log = logged]
               /\ pc' = [pc EXCEPT ![Main] = "step_raise"]
               /\ UNCHANGED insts
    /\ UNCHANGED <<optimizer_id, assigned, building, hist, kernel, nsteps>>
    /\ UNCHANGED <<started, done, initMarkers, site, ds_opt_adam, calls, outcome, compiles, cur>>

\* lines 134-139: ds_opt_adam.adam_update(self.opt_id, p.data, grad, exp_avg, exp_avg_sq)
StepUpdate(ok) ==
    /\ pc[Main] = "kernel"
    /\ ~UseCopy(call.fp16)
    /\ KernelCall("update", NoPos, ok)

\* lines 126-133: the shadow target is looked up and adam_update_copy is called
\* with it.
StepUpdateCopy(ok) ==
    /\ pc[Main] = "kernel"
    /\ UseCopy(call.fp16)
    /\ ShadowExists(call.fp16, call.g, call.i)
    /\ KernelCall("update_copy", ShadowAt(call.g, call.i), ok)

\* line 127: the lookup raises IndexError; no kernel call is made.
StepShadowMissing ==
    /\ pc[Main] = "kernel"
    /\ UseCopy(call.fp16)
    /\ ~ShadowExists(call.fp16, call.g, call.i)
    /\ pc' = [pc EXCEPT ![Main] = "step_raise"]
    /\ UNCHANGED optVars
    /\ UNCHANGED <<started, done, initMarkers, site, ds_opt_adam, calls, outcome, compiles, cur>>

\* Mutant of StepAborted: the state the call began with is restored.
StepRolledBack ==
    /\ insts' = [insts EXCEPT ![call.inst].state = call.pre]
    /\ call' = NoCall
    /\ UNCHANGED <<optimizer_id, assigned, building, hist, kernel, nsteps>>

\* An exception leaves step(): the parameters after the current one are not
\* visited, nothing is undone.
StepAborted ==
    /\ hist' = [hist EXCEPT ![call.inst].missed =
                   [q \in Positions |->
                       IF q \in call.grads /\ Before(<<call.g, call.i>>, q)
                       THEN @[q] + 1 ELSE @[q]]]
    /\ call' = NoCall
    /\ UNCHANGED <<optimizer_id, assigned, building, insts, kernel, nsteps>>

\* The exception reaches the caller of step.
StepRaise ==
    /\ pc[Main] = "step_raise"
    /\ StepAborted
    /\ pc' = [pc EXCEPT ![Main] = "idle"]
    /\ UNCHANGED <<started, done, initMarkers, site, ds_opt_adam, calls, outcome, compiles, cur>>

\* line 140: return loss
StepReturn ==
    /\ pc[Main] = "step_return"
    /\ call' = NoCall
    /\ pc' = [pc EXCEPT ![Main] = "idle"]
    /\ UNCHANGED <<optimizer_id, assigned, building, insts, hist, kernel, nsteps>>
    /\ UNCHANGED <<started, done, initMarkers, site, ds_opt_adam, calls, outcome, compiles, cur>>

\* ------------------------------------------------------- specifications

\* The build-cache directory outlives the processes: it starts empty, or holds
\* what an earlier run left (both markers, or 'started' alone after a crash).
InitMarkerStates == {"absent", "started", "done"}

Init ==
    /\ initMarkers \in InitMarkerStates
    /\ started = (initMarkers # "absent")
    /\ done = (initMarkers = "done")
    /\ pc = [p \in Procs |-> "idle"]
    /\ site = [p \in Procs |-> "none"]
    /\ ds_opt_adam = [p \in Procs |-> None]
    /\ calls = [p \in Procs |-> 0]
    /\ outcome = [p \in Procs |-> [returned |-> FALSE, failed |-> FALSE]]
    /\ compiles = [p \in Procs |-> 0]
    /\ cur = [p \in Procs |-> NoCur]
    /\ optimizer_id = 0
    /\ assigned = <<>>
    /\ building = <<>>
    /\ insts = <<>>
    /\ hist = <<>>
    /\ kernel = <<>>
    /\ call = NoCall
    /\ nsteps = 0

ProcBuild(p) ==
    \/ CallLoadOp(p)
    \/ LoadOpStep(p)

NextBuild == \E p \in Procs : ProcBuild(p)

SpecBuild == Init /\ [][NextBuild]_vars

FairBuild == SpecBuild /\ \A p \in Procs : WF_vars(ProcBuild(p))

\* A run in which a builder process, dead since, has failed between line 52 and
\* line 89: it left 'started' without 'done'. Of the live processes, each is
\* idle or is in a load_op() call that ran line 38 before the dead builder ran
\* line 52, so that it stands at line 52 itself; no live process holds a handle.
InitCrash ==
    /\ initMarkers = "absent"
    /\ started = TRUE
    /\ done = FALSE
    /\ pc \in [Procs -> {"idle", "touch_started"}]
    /\ site = [p \in Procs |-> IF pc[p] = "idle" THEN "none" ELSE "direct"]
    /\ ds_opt_adam = [p \in Procs |-> None]
    /\ calls = [p \in Procs |-> IF pc[p] = "idle" THEN 0 ELSE 1]
    /\ outcome = [p \in Procs |-> [returned |-> FALSE, failed |-> FALSE]]
    /\ compiles = [p \in Procs |-> 0]
    /\ cur = [p \in Procs |-> NoCur]
    /\ optimizer_id = 0
    /\ assigned = <<>>
    /\ building = <<>>
    /\ insts = <<>>
    /\ hist = <<>>
    /\ kernel = <<>>
    /\ call = NoCall
    /\ nsteps = 0

SpecCrash == InitCrash /\ [][NextBuild]_vars

\* One process constructing optimizers and calling step() on them.
NextOpt ==
    \/ CtorBegin
    \/ \E ok \in BOOLEAN : CtorCreate(ok)
    \/ StepCallNoClosure
    \/ StepLoopEnd
    \/ StepSkip
    \/ StepTrack
    \/ \E ok \in BOOLEAN : StepUpdate(ok)
    \/ \E ok \in BOOLEAN : StepUpdateCopy(ok)
    \/ StepRaise
    \/ StepReturn
    \/ LoadOpStep(Main)

SpecOpt == Init /\ [][NextOpt]_vars

\* The state of process Main right after its first DeepSpeedCPUAdam(...) has
\* returned: the kernel is built and cached, both markers exist, the instance
\* has opt_id 0 and no parameter state (a state SpecOpt reaches).
InitStep ==
    /\ initMarkers \in {"absent", "done"}
    /\ started = TRUE
    /\ done = TRUE
    /\ pc = [p \in Procs |-> "idle"]
    /\ site = [p \in Procs |-> "none"]
    /\ ds_opt_adam = [p \in Procs |-> IF p = Main THEN Handle ELSE None]
    /\ calls = [p \in Procs |-> 0]
    /\ outcome = [p \in Procs |-> [returned |-> p = Main, failed |-> FALSE]]
    /\ compiles = [p \in Procs |-> IF p = Main THEN 1 ELSE 0]
    /\ cur = [p \in Procs |->
                 IF p = Main
                 THEN [blocked |-> FALSE, touches |-> 2, compiles |-> 1, slept |-> FALSE,
                       returned |-> Handle]
                 ELSE NoCur]
    /\ optimizer_id = 1
    /\ assigned = <<0>>
    /\ building = <<>>
    /\ insts = <<[opt_id |-> 0, state |-> [q \in Positions |-> NoState]]>>
    /\ hist = <<NewHist>>
    /\ kernel = <<[id |-> 0, ok |-> TRUE]>>
    /\ call = NoCall
    /\ nsteps = 0

\* step() calls with any arguments on one constructed optimizer.
NextStep ==
    \/ StepCall
    \/ StepLoopEnd
    \/ StepSkip
    \/ StepTrack
    \/ LoadOpEnter(Main)
    \/ LoadOpReturn(Main)
    \/ \E ok \in BOOLEAN : StepUpdate(ok)
    \/ \E ok \in BOOLEAN : StepUpdateCopy(ok)
    \/ StepShadowMissing
    \/ StepRaise
    \/ StepReturn

SpecStep == InitStep /\ [][NextStep]_vars

\* step() calls on one constructed optimizer whose parameters change shape
\* between the calls.
NextShape ==
    \/ StepCallReshaped
    \/ StepLoopEnd
    \/ StepSkip
    \/ StepTrack
    \/ LoadOpEnter(Main)
    \/ LoadOpReturn(Main)
    \/ \E ok \in BOOLEAN : StepUpdate(ok)
    \/ StepRaise
    \/ StepReturn

SpecShape == InitStep /\ [][NextShape]_vars

\* ------------------------------------------------------------- claims

RECURSIVE SumOver(_, _)
SumOver(f, S) == IF S = {} THEN 0 ELSE LET x == CHOOSE y \in S : TRUE
                                       IN f[x] + SumOver(f, S \ {x})

\* The value of state['step'], 0 when the state dict is empty.
StepCount(st) == IF "step" \in DOMAIN st THEN st.step ELSE 0

KernelEvents == {"update", "update_copy"}

\* The kernel calls the step() call in progress has issued for parameter q.
KernelCallsFor(q) == {n \in 1..Len(call.log) : call.log[n].ev \in KernelEvents /\ call.log[n].pos = q}

\* C1 as stated: between step() calls, state[p].step is the number of step()
\* calls in which p carried a gradient, aborted calls included, and a parameter
\* never seen with a gradient has no state.
C1_StepEqualsGradCalls ==
    pc[Main] = "idle" =>
        \A k \in 1..Len(insts) : \A q \in Positions :
            /\ StepCount(insts[k].state[q]) = hist[k].gradCalls[q]
            /\ (hist[k].gradCalls[q] = 0 => NeedsInit(insts[k].state[q]))

\* C1 amended: between step() calls, state[p].step is the number of step()
\* calls in which p carried a gradient and which did not abort at a parameter
\* before p in traversal order; when that number is 0 the parameter has no state.
C1_StepEqualsReachedGradCalls ==
    pc[Main] = "idle" =>
        \A k \in 1..Len(insts) : \A q \in Positions :
            LET n == hist[k].gradCalls[q] - hist[k].missed[q]
            IN  IF n = 0 THEN NeedsInit(insts[k].state[q])
                ELSE ~NeedsInit(insts[k].state[q]) /\ insts[k].state[q].step = n

\* C1 witness: after two step() calls one parameter was reached in both, and
\* another carried a gradient in a call that aborted before reaching it.
C1_Witness ==
    /\ pc[Main] = "idle"
    /\ \E k \in 1..Len(insts) : \E q, r \in Positions :
          /\ StepCount(insts[k].state[q]) = 2
          /\ hist[k].missed[r] > 0
          /\ StepCount(insts[k].state[r]) = 1

\* C2 as stated: when the processes call load_op() once each, starting with
\* both markers absent, load(...) is invoked at most once in total, and exactly
\* once when all of them have returned.
C2_CompiledOnce ==
    (initMarkers = "absent" /\ \A p \in Procs : calls[p] <= 1) =>
        /\ SumOver(compiles, Procs) <= 1
        /\ (\A p \in Procs : outcome[p].returned) => SumOver(compiles, Procs) = 1

\* C3: with both markers absent at the start, no load(...) failing and every
\* process scheduled fairly, eventually every process has returned from
\* load_op() and holds the handle.
C3_AllEventuallyReady ==
    <>(\/ initMarkers # "absent"
       \/ \E p \in Procs : outcome[p].failed
       \/ \A p \in Procs : outcome[p].returned /\ ds_opt_adam[p] = Handle)

\* C3 witness: all processes hold the handle, nothing failed, and one of them
\* is back from a call in which it slept in the wait loop.
C3_Witness ==
    /\ initMarkers = "absent"
    /\ \A p \in Procs : outcome[p].returned /\ ds_opt_adam[p] = Handle /\ ~outcome[p].failed
    /\ \E p \in Procs : cur[p].slept /\ cur[p].returned = Handle

\* C4 as stated: a load_op() call that was entered with 'started' present and
\* 'done' absent makes no load(...) invocation.
C4_WaiterNeverCompiles ==
    \A p \in Procs : cur[p].blocked => cur[p].compiles = 0

\* C5: a load_op() call entered with an empty cache, 'started' present and
\* 'done' absent stays in wait_if_build_started as long as 'done' is absent: it
\* has written no marker, invoked no load(...) and returned nothing.
C5_BlockedWhileNotDone ==
    \A p \in Procs :
        (cur[p].blocked /\ ~done) =>
            /\ pc[p] \in {"wait_started", "wait_done", "sleep"}
            /\ cur[p].touches = 0
            /\ cur[p].compiles = 0
            /\ cur[p].returned = None

\* C5 witness: a process sleeps in the wait loop of such a call.
C5_Witness ==
    \E p \in Procs : cur[p].blocked /\ ~done /\ pc[p] = "sleep" /\ ds_opt_adam[p] = None

\* C6: the opt_id values handed out are 0, 1, 2, ... in order, the class counter
\* is their number, and the instances (the one under construction included)
\* hold pairwise distinct values among them.
C6_OptIdsUnique ==
    /\ \A n \in 1..Len(assigned) : assigned[n] = n - 1
    /\ optimizer_id = Len(assigned)
    /\ \A m, n \in 1..Len(insts) : m # n => insts[m].opt_id # insts[n].opt_id
    /\ \A n \in 1..Len(insts) : insts[n].opt_id < optimizer_id
    /\ \A n \in 1..Len(building) : /\ building[n].opt_id < optimizer_id
                                    /\ \A m \in 1..Len(insts) : insts[m].opt_id # building[n].opt_id

\* C6 witness: two instances exist.
C6_Witness == Len(insts) = 2 /\ insts[1].opt_id = 0 /\ insts[2].opt_id = 1

\* C7: once a load_op() call of a process has returned, no step of that process
\* changes the cached handle, invokes load(...), touches a marker or enters the
\* wait; a later call goes from its entry straight to its return and returns
\* the cached handle.
C7_CachedCallsAreInert ==
    [][\A p \in Procs :
          (outcome[p].returned /\ pc'[p] # pc[p]) =>
              /\ ds_opt_adam[p] = Handle
              /\ ds_opt_adam'[p] = ds_opt_adam[p]
              /\ compiles'[p] = compiles[p]
              /\ started' = started
              /\ done' = done
              /\ (pc[p] = "load_op" => pc'[p] = "return" /\ cur'[p] = NoCur)
              /\ (pc[p] = "return" => cur'[p] = [NoCur EXCEPT !.returned = ds_opt_adam[p]])
              /\ pc'[p] \notin {"wait_started", "wait_done", "sleep", "touch_started",
                                "load", "compiling", "touch_done", "raise"}]_vars

\* C7 witness: a load_op() call made by step has just returned the cached handle
\* of a second instance.
C7_Witness ==
    /\ pc[Main] = "kernel"
    /\ call.inst = 2
    /\ cur[Main] = [NoCur EXCEPT !.returned = Handle]
    /\ compiles[Main] = 1

\* C8: create_adam is called at most once per opt_id, and every adam_update or
\* adam_update_copy call carries an opt_id whose create_adam call has returned.
C8_CreateOnceBeforeUpdate ==
    /\ \A m, n \in 1..Len(kernel) : m # n => kernel[m].id # kernel[n].id
    /\ \A n \in 1..Len(call.log) :
          call.log[n].ev \in KernelEvents =>
              \E m \in 1..Len(kernel) : kernel[m].id = call.log[n].id /\ kernel[m].ok

\* C8 witness: an update is issued for the instance with opt_id 1, built after
\* the construction that took opt_id 0 failed in create_adam.
C8_Witness ==
    /\ Len(kernel) = 2
    /\ ~kernel[1].ok
    /\ \E n \in 1..Len(call.log) : call.log[n].ev \in KernelEvents /\ call.log[n].id = 1

\* C9: while a step() call runs, the state of a parameter without gradient is
\* not changed and no kernel call is issued for it.
C9_NoGradSkipped ==
    [][call.inst # 0 =>
          \A q \in Positions \ call.grads :
              /\ insts'[call.inst].state[q] = insts[call.inst].state[q]
              /\ \A n \in 1..Len(call'.log) : call'.log[n].pos # q]_vars

\* C9 witness: a step() call is about to return after kernel calls, with one
\* parameter without gradient that has no state and one that has a state.
C9_Witness ==
    /\ pc[Main] = "step_return"
    /\ \E n \in 1..Len(call.log) : call.log[n].ev \in KernelEvents
    /\ \E q, r \in Positions \ call.grads :
          /\ NeedsInit(insts[call.inst].state[q])
          /\ ~NeedsInit(insts[call.inst].state[r])

\* C10: in a step() call every kernel call is for a gradient-bearing parameter,
\* at most one per parameter; with shadow targets each is adam_update_copy with
\* the target at the parameter's own position, without them each is adam_update
\* with no shadow; when step() reaches its return every gradient-bearing
\* parameter has had exactly one.
C10_OneMatchingKernelCall ==
    call.inst # 0 =>
        /\ \A n \in 1..Len(call.log) :
              call.log[n].ev \in KernelEvents =>
                  /\ call.log[n].pos \in call.grads
                  /\ call.log[n].ev = (IF call.fp16.given THEN "update_copy" ELSE "update")
                  /\ call.log[n].shadow = (IF call.fp16.given THEN call.log[n].pos ELSE NoPos)
        /\ \A q \in Positions : Cardinality(KernelCallsFor(q)) <= 1
        /\ pc[Main] = "step_return" =>
              \A q \in call.grads : Cardinality(KernelCallsFor(q)) = 1

\* C10 witness: a step() call with shadow targets is about to return after an
\* update of every parameter.
C10_Witness ==
    /\ pc[Main] = "step_return"
    /\ call.fp16.given
    /\ call.grads = Positions
    /\ \A q \in Positions : Cardinality(KernelCallsFor(q)) = 1

\* The parameters whose state the step() call in progress has created: the call
\* is their first tracked step.
AllocatedInCall ==
    {q \in Positions : \E n \in 1..Len(call.log) : call.log[n].ev = "alloc" /\ call.log[n].pos = q}

\* Both moment buffers of a parameter state hold only zeros.
AllZero(st) == st.exp_avg.zero /\ st.exp_avg_sq.zero

\* C11 as stated: when the first step() call that tracked a parameter returns,
\* its exp_avg and exp_avg_sq are all-zero.
C11_ZeroAfterFirstStep ==
    pc[Main] = "step_return" =>
        \A q \in AllocatedInCall : AllZero(insts[call.inst].state[q])

\* C11 amended: in the step() call that creates the state of a parameter, its
\* exp_avg and exp_avg_sq are all-zero from their allocation until the kernel
\* call for the parameter has returned, and written by the kernel from then on,
\* so they are written when that step() call returns.
C11_ZeroUntilKernelWrites ==
    call.inst # 0 =>
        \A q \in AllocatedInCall :
            LET st == insts[call.inst].state[q]
                written == \E n \in KernelCallsFor(q) : call.log[n].ok
            IN  /\ st.exp_avg.zero = ~written
                /\ st.exp_avg_sq.zero = ~written
                /\ (pc[Main] = "step_return" => written)

\* C11 witness: the second step() call is about to return having created the
\* state of a parameter, whose buffers the kernel has written.
C11_Witness ==
    /\ pc[Main] = "step_return"
    /\ \E q \in AllocatedInCall : ~AllZero(insts[call.inst].state[q])
    /\ nsteps = 2

\* C12: when load(...) fails in a load_op() call, the exception reaches the
\* caller: the call ends without returning a handle and without reaching any
\* later line; the failing process has written 'started' and nothing else in
\* that call, 'started' stays, 'done' is not written by it, and its cached
\* handle stays empty.
C12_FailedBuildPropagates ==
    [][\A p \in Procs :
          pc[p] = "raise" =>
              /\ started /\ started'
              /\ cur[p].touches = 1 /\ cur'[p].touches = 1
              /\ (done' # done => \E q \in Procs \ {p} : pc[q] = "touch_done")
              /\ ds_opt_adam[p] = None /\ ds_opt_adam'[p] = None
              /\ cur'[p].returned = None
              /\ pc'[p] \in {"raise", "idle"}
              /\ (pc'[p] = "idle" => outcome'[p].failed)]_vars

\* C12 witness: a process is back from a load_op() call that failed, with
\* 'started' present, 'done' absent and no cached handle.
C12_Witness ==
    \E p \in Procs :
        /\ pc[p] = "idle"
        /\ outcome[p].failed
        /\ cur[p].compiles = 1
        /\ started /\ ~done
        /\ ds_opt_adam[p] = None

\* C13 as stated: after a builder has failed between writing 'started' and
\* writing 'done', a load_op() call of another process that finds 'started'
\* without 'done' never leaves the wait loop and never returns.
C13_WaitersBlockForever ==
    \A p \in Procs :
        cur[p].blocked =>
            /\ pc[p] \in {"wait_started", "wait_done", "sleep"}
            /\ cur[p].returned = None

\* The kernel call made last by the step() call in progress has raised.
KernelFailed ==
    /\ pc[Main] = "step_raise"
    /\ Len(call.log) > 0
    /\ call.log[Len(call.log)].ev \in KernelEvents
    /\ ~call.log[Len(call.log)].ok

\* C14: when a kernel call of step() raises at parameter c, every
\* gradient-bearing parameter before c has had its kernel call return, has
\* written moment buffers and a step counter one above the value it had when the
\* call began; c keeps its incremented counter; every parameter after c, like
\* every parameter without gradient, has the state it had when the call began
\* and no event of the call; and the step that ends the call changes no state.
C14_NoRollback ==
    [][KernelFailed =>
          LET k == call.inst
              c == <<call.g, call.i>>
          IN  /\ \A q \in Positions :
                    LET st == insts[k].state[q]
                    IN  /\ (q \in call.grads /\ Before(q, c)) =>
                               /\ StepCount(st) = StepCount(call.pre[q]) + 1
                               /\ ~st.exp_avg.zero /\ ~st.exp_avg_sq.zero
                               /\ \E n \in KernelCallsFor(q) : call.log[n].ok
                        /\ (q \notin call.grads \/ Before(c, q)) =>
                               /\ st = call.pre[q]
                               /\ \A n \in 1..Len(call.log) : call.log[n].pos # q
              /\ StepCount(insts[k].state[c]) = StepCount(call.pre[c]) + 1
              /\ insts' = insts
              /\ pc'[Main] = "idle"]_vars

\* C14 witness: in a second step() call where every parameter carries a
\* gradient, the kernel call for the second parameter has raised after the one
\* for the first returned, and the third parameter has a state from before.
C14_Witness ==
    /\ KernelFailed
    /\ call.grads = Positions
    /\ <<call.g, call.i>> = <<0, 1>>
    /\ \E n \in KernelCallsFor(<<0, 0>>) : call.log[n].ok
    /\ ~NeedsInit(call.pre[<<1, 0>>])
    /\ insts[call.inst].state[<<1, 0>>] = call.pre[<<1, 0>>]

\* The places in the log of the step() call in progress where the closure was
\* invoked.
ClosureCalls == {n \in 1..Len(call.log) : call.log[n].ev = "closure"}

\* C15: a step() call with a closure invokes it once, as the first thing it
\* does (the state is still the one the call began with), and reaches its
\* return with the closure's result as the value to return; a step() call
\* without closure never invokes one and reaches its return with None, whatever
\* it updated.
C15_ClosureOnceFirst ==
    call.inst # 0 =>
        /\ ClosureCalls = (IF call.closure THEN {1} ELSE {})
        /\ (ClosureCalls = 1..Len(call.log) => insts[call.inst].state = call.pre)
        /\ (pc[Main] = "step_return" => call.loss = (IF call.closure THEN Loss ELSE None))

\* C15 witness: a step() call with a closure is about to return the closure's
\* result after the kernel calls for all parameters.
C15_Witness ==
    /\ pc[Main] = "step_return"
    /\ call.closure
    /\ call.loss = Loss
    /\ call.log[1].ev = "closure"
    /\ \A q \in Positions : \E n \in KernelCallsFor(q) : n > 1 /\ call.log[n].ok

\* The state dict of a parameter holds its moment buffers.
Tracked(st) == "exp_avg" \in DOMAIN st /\ "exp_avg_sq" \in DOMAIN st

\* The shape or precision of p.data of parameter q differs from that of the
\* moment buffers stored for it when the step() call in progress began.
Mismatched(q) ==
    /\ Tracked(call.pre[q])
    /\ \/ call.pre[q].exp_avg.like # call.likes[q]
       \/ call.pre[q].exp_avg_sq.like # call.likes[q]

\* C16 as stated: a step() call that meets a gradient-bearing parameter whose
\* shape or precision differs from that of its stored moment buffers issues no
\* kernel call for it, does nothing for any later parameter and does not reach
\* its return.
C16_MismatchStopsStep ==
    call.inst # 0 =>
        \A q \in call.grads :
            Mismatched(q) =>
                /\ KernelCallsFor(q) = {}
                /\ \A n \in 1..Len(call.log) : ~Before(q, call.log[n].pos)
                /\ pc[Main] # "step_return"

\* C17 as stated, first part: once a step() call in which a parameter carried a
\* gradient is over, its moment buffers have been allocated.
C17_AllocatedInFirstGradCall ==
    pc[Main] = "idle" =>
        \A k \in 1..Len(insts) : \A q \in Positions :
            hist[k].gradCalls[q] >= 1 =>
                hist[k].allocs[q] = 1 /\ Tracked(insts[k].state[q])

\* C17 amended: the moment buffers of a parameter are allocated at most once, in
\* the first step() call that reaches the parameter while it carries a gradient
\* (a call that aborts at an earlier parameter allocates nothing for it), with
\* the shape and precision p.data has in that call; afterwards the state holds
\* these two buffers for good, and every kernel call for the parameter is handed
\* them, whatever shape p.data has by then.
C17_AllocatedOnceKept ==
    /\ \A k \in 1..Len(insts) : \A q \in Positions :
          LET st == insts[k].state[q]
          IN  /\ hist[k].allocs[q] = (IF Tracked(st) THEN 1 ELSE 0)
              /\ (Tracked(st) => st.exp_avg.gen = 0 /\ st.exp_avg_sq.gen = 0)
              /\ (pc[Main] = "idle" =>
                     (~Tracked(st) <=> hist[k].gradCalls[q] - hist[k].missed[q] = 0))
    /\ call.inst # 0 =>
          \A q \in Positions :
              LET st == insts[call.inst].state[q]
                  old == call.pre[q]
              IN  /\ q \in AllocatedInCall =>
                         /\ ~Tracked(old)
                         /\ st.exp_avg.like = call.likes[q]
                         /\ st.exp_avg_sq.like = call.likes[q]
                  /\ Tracked(old) =>
                         /\ q \notin AllocatedInCall
                         /\ BufferId(st.exp_avg) = BufferId(old.exp_avg)
                         /\ BufferId(st.exp_avg_sq) = BufferId(old.exp_avg_sq)
                  /\ \A n \in KernelCallsFor(q) :
                         /\ call.log[n].exp_avg = BufferId(st.exp_avg)
                         /\ call.log[n].exp_avg_sq = BufferId(st.exp_avg_sq)
                         /\ call.log[n].p = call.likes[q]

\* C17 witness: a second step() call is about to return; for one parameter it
\* handed the kernel the buffers allocated in the first call although p.data has
\* another shape now, and it allocated the buffers of another parameter, which
\* carried a gradient in the first call too but was not reached by it.
C17_Witness ==
    /\ pc[Main] = "step_return"
    /\ \E q \in Positions :
          /\ Mismatched(q)
          /\ \E n \in KernelCallsFor(q) : call.log[n].exp_avg = BufferId(call.pre[q].exp_avg)
    /\ \E r \in AllocatedInCall : hist[call.inst].gradCalls[r] = 2

\* C18: in a step() call the events of the parameters (state creation, step
\* increment, kernel call) come in traversal order, group by group and inside a
\* group parameter by parameter; and when the step counter of a parameter is
\* incremented, the kernel call of every gradient-bearing parameter before it
\* has returned.
C18_TraversalOrder ==
    call.inst # 0 =>
        /\ \A m, n \in 1..Len(call.log) :
              (m < n /\ call.log[m].pos # NoPos) =>
                  \/ call.log[m].pos = call.log[n].pos
                  \/ Before(call.log[m].pos, call.log[n].pos)
        /\ \A n \in 1..Len(call.log) :
              call.log[n].ev = "inc" =>
                  \A r \in call.grads :
                      Before(r, call.log[n].pos) =>
                          \E m \in KernelCallsFor(r) : m < n /\ call.log[m].ok

\* C18 witness: a step() call is about to return after the kernel calls for
\* <<0, 0>>, <<0, 1>> and <<1, 0>>, issued in this order.
C18_Witness ==
    /\ pc[Main] = "step_return"
    /\ call.grads = Positions
    /\ \E a, b, c \in 1..Len(call.log) :
          /\ a < b /\ b < c
          /\ a \in KernelCallsFor(<<0, 0>>)
          /\ b \in KernelCallsFor(<<0, 1>>)
          /\ c \in KernelCallsFor(<<1, 0>>)

\* C19: in a run that began with both markers absent, 'done' exists only if
\* 'started' exists and the load(...) of some process has returned the module,
\* and no step removes a marker.
C19_MarkersMonotone ==
    [][initMarkers = "absent" =>
          /\ done => (started /\ \E p \in Procs : ds_opt_adam[p] = Handle)
          /\ done' => (started' /\ \E p \in Procs : ds_opt_adam'[p] = Handle)
          /\ started => started'
          /\ done => done']_vars

\* C19 witness: both markers exist after one process built the kernel and the
\* build of another failed.
C19_Witness ==
    /\ initMarkers = "absent"
    /\ started /\ done
    /\ \E p, q \in Procs :
          /\ ds_opt_adam[p] = Handle /\ compiles[p] = 1
          /\ outcome[q].failed /\ ds_opt_adam[q] = None

\* C20: while 'done' is absent, a process whose load(...) has failed has made
\* that one load(...) call and no other, holds no handle, has had no load_op()
\* call return, and any load_op() call it is in stands before or inside the
\* wait of lines 38-40, behind the 'started' marker.
C20_SelfBlocked ==
    \A p \in Procs :
        (outcome[p].failed /\ ~done) =>
            /\ started
            /\ pc[p] \in {"idle", "load_op", "wait_started", "wait_done", "sleep"}
            /\ compiles[p] = 1
            /\ ds_opt_adam[p] = None
            /\ ~outcome[p].returned

\* C20 witness: a process whose first load_op() call failed sleeps in the wait
\* loop of its second one.
C20_Witness ==
    \E p \in Procs :
        /\ outcome[p].failed
        /\ ~done
        /\ calls[p] = 2
        /\ pc[p] = "sleep"
        /\ cur[p].blocked

====
